---- MODULE Spec2Model ----
(***************************************************************************)
(* A model of the two Lua bridge classes of the LuaMachine plugin:         *)
(*   ULuaCommonUIWidget   (Private/LuaCommonUIWidget.cpp)                  *)
(*   ULuaViewModelBridge  (Private/LuaViewModelBridge.cpp)                 *)
(* One instance, of one of the two classes (cls), is driven by its host:   *)
(* the host edits the instance's properties, the engine delivers the       *)
(* widget's lifecycle events, and Blueprint code calls the public          *)
(* operations.  Every handler is an operator that computes the handler's   *)
(* outcome from the current state, its inputs and the logging flag; the    *)
(* action of the handler applies that outcome.                             *)
(***************************************************************************)
EXTENDS Integers, Sequences, FiniteSets

VARIABLES
    cls,                \* which class the instance is: "Widget" or "ViewModel"
    LuaState,           \* TSubclassOf<ULuaState> LuaState
    Table,              \* TMap<FString, FLuaValue> Table
    bLogError,          \* bool bLogError
    OnConstructedLuaFunction,
    OnDestructedLuaFunction,
    OnActivatedLuaFunction,
    OnDeactivatedLuaFunction,
    OnGetPropertyLuaFunction,
    OnSetPropertyLuaFunction,
    WidgetLuaTable,     \* FLuaValue WidgetLuaTable
    ViewModelLuaTable,  \* FLuaValue ViewModelLuaTable
    LuaHeap,            \* the Lua tables alive in the state: reference -> fields
    TablesCreated,      \* how many Lua tables the instance has created so far
    constructed,        \* the widget is between NativeConstruct and NativeDestruct
    lastOp,             \* the last operation and its inputs
    lastRet,            \* the value the last operation returned
    calls,              \* the Lua functions the last operation invoked, in order
    broadcasts,         \* the field-value-changed broadcasts of the last operation
    logs                \* the log entries the last operation emitted

config == <<cls, LuaState, Table, bLogError,
            OnConstructedLuaFunction, OnDestructedLuaFunction,
            OnActivatedLuaFunction, OnDeactivatedLuaFunction,
            OnGetPropertyLuaFunction, OnSetPropertyLuaFunction>>
hooks == <<OnConstructedLuaFunction, OnDestructedLuaFunction,
           OnActivatedLuaFunction, OnDeactivatedLuaFunction,
           OnGetPropertyLuaFunction, OnSetPropertyLuaFunction>>
tables == <<WidgetLuaTable, ViewModelLuaTable, LuaHeap, TablesCreated>>
observed == <<lastOp, lastRet, calls, broadcasts, logs>>
vars == <<config, tables, constructed, observed>>

----------------------------------------------------------------------------
\* Bounds of the model.
MaxTables == 2          \* Lua tables one instance creates in a run
MaxArgs == 2            \* length of the argument list given to LuaCallFunction

----------------------------------------------------------------------------
\* FLuaValue: a tagged value (ELuaValueType).
Nil == [Type |-> "Nil"]
LuaTrue == [Type |-> "Bool", Bool |-> TRUE]
LuaFalse == [Type |-> "Bool", Bool |-> FALSE]
Int1 == [Type |-> "Integer", Integer |-> 1]
Int2 == [Type |-> "Integer", Integer |-> 2]
FnField == [Type |-> "Function", Name |-> "fieldFn"]
FnHook == [Type |-> "Function", Name |-> "hookFn"]
LuaCreateNil == Nil
LuaCreateString(s) == [Type |-> "String", String |-> s]
LuaCreateObject(obj) == [Type |-> "UObject", Object |-> obj]
TableValue(ref) == [Type |-> "Table", Ref |-> ref]

LuaValueIsFunction(v) == v.Type = "Function"
LuaValueIsNil(v) == v.Type = "Nil"
LuaValueIsBoolean(v) == v.Type = "Bool"
Conv_LuaValueToBool(v) ==
    CASE v.Type = "Nil" -> FALSE
      [] v.Type = "Bool" -> v.Bool
      [] v.Type = "Integer" -> v.Integer # 0
      [] OTHER -> TRUE

\* TSubclassOf<ULuaState>: no class, a class whose state runs, a class whose
\* state cannot be obtained (it is disabled).  ULuaState*: null or the state.
NoClass == "null"
StateClass == "LuaStateClass"
DisabledStateClass == "DisabledLuaStateClass"
StateClasses == {NoClass, StateClass, DisabledStateClass}
NoState == "nullptr"
StateInstance == "L"
\* A ULuaState* handed back to the caller.
StatePointer(ptr) == [Type |-> "ULuaState*", Pointer |-> ptr]

\* The field names and values the host works with.
SelfKey == IF cls = "Widget" THEN "Widget" ELSE "ViewModel"
FieldNames == {"Widget", "ViewModel", "x"}
Keys == {SelfKey, "x"}
\* Table pairs the host configures: a number under the key of the
\* self-reference, a function (a method of the instance) under "x".
TablePairs == {<<SelfKey, Int1>>, <<"x", FnField>>}
\* Values the host writes with LuaSetField / LuaSetProperty.
SetValues == {Nil, Int2}
\* What a property hook may return, what a function of the table may return,
\* and what a lifecycle hook returns (the widget discards it).
HookReturns == {Nil, LuaTrue, LuaFalse, Int1}
FunctionReturns == {Nil, Int1}
LifecycleReturns == {Nil}
\* Argument lists <<1>>, <<1, 2>>, ... up to MaxArgs values, all distinct.
ArgLists == {[i \in 1..n |-> [Type |-> "Integer", Integer |-> i]] : n \in 0..MaxArgs}

\* FName / FString hook names: unset, a global that is a function, a global
\* that is not one.
NAME_None == "None"
EmptyString == ""
HookGlobal == "OnHook"
DataGlobal == "NotCallable"

EmptyFields == [k \in FieldNames |-> Nil]
NoLogs == <<>>
NoCalls == <<>>

----------------------------------------------------------------------------
\* ULuaBlueprintFunctionLibrary, as the bridges use it.

\* LuaGetState: the state instance of a state class, null when there is none.
LuaGetState(StateCls) ==
    IF StateCls = StateClass THEN StateInstance ELSE NoState

\* The globals of the Lua state.
Globals(Name) ==
    CASE Name = HookGlobal -> FnHook
      [] Name = DataGlobal -> Int1
      [] OTHER -> Nil

\* LuaGetGlobal: nil when the state instance cannot be obtained.
LuaGetGlobal(StateCls, Name) ==
    IF LuaGetState(StateCls) = NoState THEN Nil ELSE Globals(Name)

\* LuaCreateTable: a fresh table of the state, nil without a state instance.
LuaCreateTable(StateCls, created) ==
    IF LuaGetState(StateCls) = NoState THEN Nil ELSE TableValue(created + 1)

\* LuaTableGetField: nil when the value is no table or the field is absent.
LuaTableGetField(heap, t, Key) ==
    IF t.Type # "Table" THEN Nil
    ELSE IF t.Ref \notin DOMAIN heap THEN Nil
    ELSE heap[t.Ref][Key]

\* LuaTableSetField: writes the field of the referenced table; nothing when
\* the value is no table.
LuaTableSetField(heap, t, Key, Value) ==
    IF t.Type # "Table" THEN heap
    ELSE IF t.Ref \notin DOMAIN heap THEN heap
    ELSE [heap EXCEPT ![t.Ref][Key] = Value]

\* Assigning a new FLuaValue to the member releases the table the member
\* referenced and keeps the new one alive.
AssignTable(heap, old, new) ==
    IF new.Type # "Table" THEN heap
    ELSE [r \in {new.Ref} |-> EmptyFields]

\* for (const TPair<FString, FLuaValue>& Pair : Table) LuaTableSetField(...)
RECURSIVE CopyPairs(_, _, _, _)
CopyPairs(heap, t, map, todo) ==
    IF todo = {} THEN heap
    ELSE LET k == CHOOSE x \in todo : TRUE
         IN CopyPairs(LuaTableSetField(heap, t, k, map[k]), t, map, todo \ {k})

----------------------------------------------------------------------------
Init ==
    /\ cls \in {"Widget", "ViewModel"}
    /\ LuaState = NoClass
    /\ Table = [k \in {} |-> Nil]
    /\ bLogError = TRUE
    /\ OnConstructedLuaFunction = NAME_None
    /\ OnDestructedLuaFunction = NAME_None
    /\ OnActivatedLuaFunction = NAME_None
    /\ OnDeactivatedLuaFunction = NAME_None
    /\ OnGetPropertyLuaFunction = EmptyString
    /\ OnSetPropertyLuaFunction = EmptyString
    /\ WidgetLuaTable = Nil
    /\ ViewModelLuaTable = Nil
    /\ LuaHeap = [r \in {} |-> EmptyFields]
    /\ TablesCreated = 0
    /\ constructed = FALSE
    /\ lastOp = [op |-> "Construct"]
    /\ lastRet = Nil
    /\ calls = NoCalls
    /\ broadcasts = <<>>
    /\ logs = NoLogs

----------------------------------------------------------------------------
\* LuaValueCall: the function runs once with the arguments and returns what
\* the script returns (result, chosen by the script).
LuaValueCall(FunctionValue, Args, result) ==
    [fn |-> FunctionValue, args |-> Args, result |-> result]

\* A log entry is emitted only under the flag.
LogIf(bLog, entry) == IF bLog THEN <<entry>> ELSE NoLogs

----------------------------------------------------------------------------
\* ULuaCommonUIWidget

\* A slip in InitializeLuaTable: the table is created and assigned before the
\* state is checked, so a failed initialization leaves nil in the member.
InitializeLuaTable_AssignsBeforeCheck(tbl, heap, created, bLog) ==
    LET t == LuaCreateTable(LuaState, created)
    IN IF LuaState = NoClass
       THEN [tbl |-> t, heap |-> heap, created |-> created,
             logs |-> LogIf(bLog, "Error: LuaState is not set")]
       ELSE IF LuaGetState(LuaState) = NoState
       THEN [tbl |-> t, heap |-> heap, created |-> created,
             logs |-> LogIf(bLog, "Error: Failed to get LuaState instance")]
       ELSE LET h0 == AssignTable(heap, tbl, t)
                h1 == LuaTableSetField(h0, t, "Widget", LuaCreateObject("this"))
                h2 == CopyPairs(h1, t, Table, DOMAIN Table)
            IN [tbl |-> t, heap |-> h2, created |-> created + 1, logs |-> NoLogs]

\* InitializeLuaTable(): the member table, the heap and the creation count
\* it leaves, and what it logs.
InitializeLuaTable(tbl, heap, created, bLog) ==
    IF LuaState = NoClass
    THEN [tbl |-> tbl, heap |-> heap, created |-> created,
          logs |-> LogIf(bLog, "Error: LuaState is not set")]
    ELSE IF LuaGetState(LuaState) = NoState
    THEN [tbl |-> tbl, heap |-> heap, created |-> created,
          logs |-> LogIf(bLog, "Error: Failed to get LuaState instance")]
    ELSE LET t == LuaCreateTable(LuaState, created)
             h0 == AssignTable(heap, tbl, t)
             h1 == LuaTableSetField(h0, t, "Widget", LuaCreateObject("this"))
             h2 == CopyPairs(h1, t, Table, DOMAIN Table)
         IN [tbl |-> t, heap |-> h2, created |-> created + 1, logs |-> NoLogs]

\* A slip in the widget's CallLuaFunctionIfExists: the "not callable" entry
\* is logged under a plain else.
WidgetCallLuaFunctionIfExists_LogsAlways(FunctionName, tbl, result, bLog) ==
    IF FunctionName = NAME_None
    THEN [called |-> FALSE, calls |-> NoCalls, logs |-> NoLogs]
    ELSE IF LuaState = NoClass
    THEN [called |-> FALSE, calls |-> NoCalls,
          logs |-> LogIf(bLog, "Error: LuaState is not set")]
    ELSE LET FunctionValue == LuaGetGlobal(LuaState, FunctionName)
         IN IF LuaValueIsFunction(FunctionValue)
            THEN [called |-> TRUE,
                  calls |-> <<LuaValueCall(FunctionValue, <<tbl>>, result)>>,
                  logs |-> NoLogs]
            ELSE [called |-> FALSE, calls |-> NoCalls,
                  logs |-> <<"Verbose: Lua function not found or not callable">>]

\* CallLuaFunctionIfExists(FunctionName): whether the global was called, the
\* call made and what is logged.
WidgetCallLuaFunctionIfExists(FunctionName, tbl, result, bLog) ==
    IF FunctionName = NAME_None
    THEN [called |-> FALSE, calls |-> NoCalls, logs |-> NoLogs]
    ELSE IF LuaState = NoClass
    THEN [called |-> FALSE, calls |-> NoCalls,
          logs |-> LogIf(bLog, "Error: LuaState is not set")]
    ELSE LET FunctionValue == LuaGetGlobal(LuaState, FunctionName)
         IN IF LuaValueIsFunction(FunctionValue)
            THEN [called |-> TRUE,
                  calls |-> <<LuaValueCall(FunctionValue, <<tbl>>, result)>>,
                  logs |-> NoLogs]
            ELSE [called |-> FALSE, calls |-> NoCalls,
                  logs |-> LogIf(bLog, "Verbose: Lua function not found or not callable")]

\* The outcome of a handler: the member table, heap and creation count it
\* leaves, the value it returns, its Lua calls, broadcasts and log entries.
Outcome(tbl, heap, created, ret, cs, bs, ls) ==
    [tbl |-> tbl, heap |-> heap, created |-> created, ret |-> ret,
     calls |-> cs, broadcasts |-> bs, logs |-> ls]

\* NativeConstruct(): InitializeLuaTable(), then the constructed hook.
NativeConstructOut(result, bLog) ==
    LET i == InitializeLuaTable(WidgetLuaTable, LuaHeap, TablesCreated, bLog)
        c == WidgetCallLuaFunctionIfExists(OnConstructedLuaFunction, i.tbl, result, bLog)
    IN Outcome(i.tbl, i.heap, i.created, Nil, c.calls, <<>>, i.logs \o c.logs)

\* NativeDestruct(): the destructed hook.
NativeDestructOut(result, bLog) ==
    LET c == WidgetCallLuaFunctionIfExists(OnDestructedLuaFunction, WidgetLuaTable, result, bLog)
    IN Outcome(WidgetLuaTable, LuaHeap, TablesCreated, Nil, c.calls, <<>>, c.logs)

\* NativeOnActivated(): the activated hook, then OnLuaActivated.Broadcast().
NativeOnActivatedOut(result, bLog) ==
    LET c == WidgetCallLuaFunctionIfExists(OnActivatedLuaFunction, WidgetLuaTable, result, bLog)
    IN Outcome(WidgetLuaTable, LuaHeap, TablesCreated, Nil, c.calls,
               <<"OnLuaActivated">>, c.logs)

\* NativeOnDeactivated(): the deactivated hook, then OnLuaDeactivated.Broadcast().
NativeOnDeactivatedOut(result, bLog) ==
    LET c == WidgetCallLuaFunctionIfExists(OnDeactivatedLuaFunction, WidgetLuaTable, result, bLog)
    IN Outcome(WidgetLuaTable, LuaHeap, TablesCreated, Nil, c.calls,
               <<"OnLuaDeactivated">>, c.logs)

\* A slip in the widget's LuaCallFunction: the table is added after Args
\* (Args.Add) instead of inserted before them.
WidgetLuaCallFunctionOut_TableLast(Name, Args, result, bLog) ==
    IF WidgetLuaTable.Type # "Table"
    THEN [tbl |-> WidgetLuaTable, heap |-> LuaHeap, created |-> TablesCreated,
          ret |-> LuaCreateNil, calls |-> NoCalls, broadcasts |-> <<>>,
          logs |-> LogIf(bLog, "Error: Widget Lua table is not initialized")]
    ELSE LET FunctionValue == LuaTableGetField(LuaHeap, WidgetLuaTable, Name)
         IN IF LuaValueIsFunction(FunctionValue)
            THEN LET c == LuaValueCall(FunctionValue, Args \o <<WidgetLuaTable>>, result)
                 IN [tbl |-> WidgetLuaTable, heap |-> LuaHeap,
                     created |-> TablesCreated, ret |-> c.result, calls |-> <<c>>,
                     broadcasts |-> <<>>, logs |-> NoLogs]
            ELSE [tbl |-> WidgetLuaTable, heap |-> LuaHeap, created |-> TablesCreated,
                  ret |-> LuaCreateNil, calls |-> NoCalls, broadcasts |-> <<>>,
                  logs |-> LogIf(bLog, "Warning: Function not found in widget table")]

\* LuaCallFunction(Name, Args)
WidgetLuaCallFunctionOut(Name, Args, result, bLog) ==
    IF WidgetLuaTable.Type # "Table"
    THEN Outcome(WidgetLuaTable, LuaHeap, TablesCreated, LuaCreateNil, NoCalls, <<>>,
                 LogIf(bLog, "Error: Widget Lua table is not initialized"))
    ELSE LET FunctionValue == LuaTableGetField(LuaHeap, WidgetLuaTable, Name)
         IN IF LuaValueIsFunction(FunctionValue)
            THEN LET c == LuaValueCall(FunctionValue, <<WidgetLuaTable>> \o Args, result)
                 IN Outcome(WidgetLuaTable, LuaHeap, TablesCreated, c.result, <<c>>,
                            <<>>, NoLogs)
            ELSE Outcome(WidgetLuaTable, LuaHeap, TablesCreated, LuaCreateNil, NoCalls,
                         <<>>, LogIf(bLog, "Warning: Function not found in widget table"))

\* LuaGetField(Name)
WidgetLuaGetFieldOut(Name, bLog) ==
    IF WidgetLuaTable.Type # "Table"
    THEN Outcome(WidgetLuaTable, LuaHeap, TablesCreated, LuaCreateNil, NoCalls, <<>>,
                 LogIf(bLog, "Error: Widget Lua table is not initialized"))
    ELSE Outcome(WidgetLuaTable, LuaHeap, TablesCreated,
                 LuaTableGetField(LuaHeap, WidgetLuaTable, Name), NoCalls, <<>>, NoLogs)

\* LuaSetField(Name, Value)
WidgetLuaSetFieldOut(Name, Value, bLog) ==
    IF WidgetLuaTable.Type # "Table"
    THEN Outcome(WidgetLuaTable, LuaHeap, TablesCreated, Nil, NoCalls, <<>>,
                 LogIf(bLog, "Error: Widget Lua table is not initialized"))
    ELSE Outcome(WidgetLuaTable,
                 LuaTableSetField(LuaHeap, WidgetLuaTable, Name, Value),
                 TablesCreated, Nil, NoCalls, <<>>, NoLogs)

\* LuaWidgetGetState(): the state instance, null when LuaState is unset.
LuaWidgetGetStateOut(bLog) ==
    Outcome(WidgetLuaTable, LuaHeap, TablesCreated,
            StatePointer(IF LuaState = NoClass THEN NoState ELSE LuaGetState(LuaState)),
            NoCalls, <<>>, NoLogs)

\* GetWidgetLuaTable(): the member.
GetWidgetLuaTableOut(bLog) ==
    Outcome(WidgetLuaTable, LuaHeap, TablesCreated, WidgetLuaTable,
            NoCalls, <<>>, NoLogs)

----------------------------------------------------------------------------
\* ULuaViewModelBridge

\* A slip in InitializeLuaViewModel: the "ViewModel" field is never written.
InitializeLuaViewModelOut_NoSelfReference(bLog) ==
    IF LuaState = NoClass
    THEN Outcome(ViewModelLuaTable, LuaHeap, TablesCreated, Nil, NoCalls, <<>>,
                 LogIf(bLog, "Error: LuaState is not set"))
    ELSE IF LuaGetState(LuaState) = NoState
    THEN Outcome(ViewModelLuaTable, LuaHeap, TablesCreated, Nil, NoCalls, <<>>,
                 LogIf(bLog, "Error: Failed to get LuaState instance"))
    ELSE LET t == LuaCreateTable(LuaState, TablesCreated)
             h0 == AssignTable(LuaHeap, ViewModelLuaTable, t)
             h2 == CopyPairs(h0, t, Table, DOMAIN Table)
         IN Outcome(t, h2, TablesCreated + 1, Nil, NoCalls, <<>>, NoLogs)

\* InitializeLuaViewModel()
InitializeLuaViewModelOut(bLog) ==
    IF LuaState = NoClass
    THEN Outcome(ViewModelLuaTable, LuaHeap, TablesCreated, Nil, NoCalls, <<>>,
                 LogIf(bLog, "Error: LuaState is not set"))
    ELSE IF LuaGetState(LuaState) = NoState
    THEN Outcome(ViewModelLuaTable, LuaHeap, TablesCreated, Nil, NoCalls, <<>>,
                 LogIf(bLog, "Error: Failed to get LuaState instance"))
    ELSE LET t == LuaCreateTable(LuaState, TablesCreated)
             h0 == AssignTable(LuaHeap, ViewModelLuaTable, t)
             h1 == LuaTableSetField(h0, t, "ViewModel", LuaCreateObject("this"))
             h2 == CopyPairs(h1, t, Table, DOMAIN Table)
         IN Outcome(t, h2, TablesCreated + 1, Nil, NoCalls, <<>>, NoLogs)

\* CallLuaFunctionIfExists(FunctionName, Args, OutResult)
ViewModelCallLuaFunctionIfExists(FunctionName, Args, result, bLog) ==
    IF FunctionName = EmptyString
    THEN [called |-> FALSE, OutResult |-> Nil, calls |-> NoCalls, logs |-> NoLogs]
    ELSE IF LuaState = NoClass
    THEN [called |-> FALSE, OutResult |-> Nil, calls |-> NoCalls,
          logs |-> LogIf(bLog, "Error: LuaState is not set")]
    ELSE LET FunctionValue == LuaGetGlobal(LuaState, FunctionName)
         IN IF LuaValueIsFunction(FunctionValue)
            THEN LET c == LuaValueCall(FunctionValue, Args, result)
                 IN [called |-> TRUE, OutResult |-> c.result, calls |-> <<c>>,
                     logs |-> NoLogs]
            ELSE [called |-> FALSE, OutResult |-> Nil, calls |-> NoCalls,
                  logs |-> LogIf(bLog, "Warning: Lua function not found or not callable")]

\* A slip in LuaGetProperty: the check of the table's type is missing.
LuaGetPropertyOut_Unguarded(PropertyName, result, bLog) ==
    LET Default == LuaTableGetField(LuaHeap, ViewModelLuaTable, PropertyName)
    IN IF OnGetPropertyLuaFunction # EmptyString
       THEN LET c == ViewModelCallLuaFunctionIfExists(
                         OnGetPropertyLuaFunction,
                         <<ViewModelLuaTable, LuaCreateString(PropertyName)>>,
                         result, bLog)
            IN IF c.called /\ ~LuaValueIsNil(c.OutResult)
               THEN Outcome(ViewModelLuaTable, LuaHeap, TablesCreated, c.OutResult,
                            c.calls, <<>>, c.logs)
               ELSE Outcome(ViewModelLuaTable, LuaHeap, TablesCreated, Default,
                            c.calls, <<>>, c.logs)
       ELSE Outcome(ViewModelLuaTable, LuaHeap, TablesCreated, Default,
                    NoCalls, <<>>, NoLogs)

\* LuaGetProperty(PropertyName)
LuaGetPropertyOut(PropertyName, result, bLog) ==
    IF ViewModelLuaTable.Type # "Table"
    THEN Outcome(ViewModelLuaTable, LuaHeap, TablesCreated, LuaCreateNil, NoCalls, <<>>,
                 LogIf(bLog, "Error: ViewModel Lua table is not initialized"))
    ELSE LET Default == LuaTableGetField(LuaHeap, ViewModelLuaTable, PropertyName)
         IN IF OnGetPropertyLuaFunction # EmptyString
            THEN LET c == ViewModelCallLuaFunctionIfExists(
                              OnGetPropertyLuaFunction,
                              <<ViewModelLuaTable, LuaCreateString(PropertyName)>>,
                              result, bLog)
                 IN IF c.called /\ ~LuaValueIsNil(c.OutResult)
                    THEN Outcome(ViewModelLuaTable, LuaHeap, TablesCreated, c.OutResult,
                                 c.calls, <<>>, c.logs)
                    ELSE Outcome(ViewModelLuaTable, LuaHeap, TablesCreated, Default,
                                 c.calls, <<>>, c.logs)
            ELSE Outcome(ViewModelLuaTable, LuaHeap, TablesCreated, Default,
                         NoCalls, <<>>, NoLogs)

\* A slip in LuaSetProperty: bPropertyWasSet starts true, so a change the
\* hook rejected is broadcast all the same.
LuaSetPropertyOut_RejectedBroadcasts(PropertyName, Value, result, bLog) ==
    IF ViewModelLuaTable.Type # "Table"
    THEN Outcome(ViewModelLuaTable, LuaHeap, TablesCreated, Nil, NoCalls, <<>>,
                 LogIf(bLog, "Error: ViewModel Lua table is not initialized"))
    ELSE LET Written == LuaTableSetField(LuaHeap, ViewModelLuaTable, PropertyName, Value)
             Changed == <<PropertyName>>
             c == ViewModelCallLuaFunctionIfExists(
                      OnSetPropertyLuaFunction,
                      <<ViewModelLuaTable, LuaCreateString(PropertyName), Value>>,
                      result, bLog)
         IN IF c.called /\ LuaValueIsBoolean(c.OutResult)
            THEN Outcome(ViewModelLuaTable, LuaHeap, TablesCreated, Nil,
                         c.calls, Changed, c.logs)
            ELSE Outcome(ViewModelLuaTable, Written, TablesCreated, Nil,
                         c.calls, Changed, c.logs)

\* LuaSetProperty(PropertyName, Value)
LuaSetPropertyOut(PropertyName, Value, result, bLog) ==
    IF ViewModelLuaTable.Type # "Table"
    THEN Outcome(ViewModelLuaTable, LuaHeap, TablesCreated, Nil, NoCalls, <<>>,
                 LogIf(bLog, "Error: ViewModel Lua table is not initialized"))
    ELSE LET Written == LuaTableSetField(LuaHeap, ViewModelLuaTable, PropertyName, Value)
             Changed == <<PropertyName>>
         IN IF OnSetPropertyLuaFunction # EmptyString
            THEN LET c == ViewModelCallLuaFunctionIfExists(
                              OnSetPropertyLuaFunction,
                              <<ViewModelLuaTable, LuaCreateString(PropertyName), Value>>,
                              result, bLog)
                 IN IF c.called
                    THEN IF LuaValueIsBoolean(c.OutResult)
                         THEN IF Conv_LuaValueToBool(c.OutResult)
                              THEN Outcome(ViewModelLuaTable, LuaHeap, TablesCreated, Nil,
                                           c.calls, Changed, c.logs)
                              ELSE Outcome(ViewModelLuaTable, LuaHeap, TablesCreated, Nil,
                                           c.calls, <<>>, c.logs)
                         ELSE Outcome(ViewModelLuaTable, Written, TablesCreated, Nil,
                                      c.calls, Changed, c.logs)
                    ELSE Outcome(ViewModelLuaTable, Written, TablesCreated, Nil,
                                 c.calls, Changed, c.logs)
            ELSE Outcome(ViewModelLuaTable, Written, TablesCreated, Nil,
                         NoCalls, Changed, NoLogs)

\* LuaCallFunction(Name, Args)
ViewModelLuaCallFunctionOut(Name, Args, result, bLog) ==
    IF ViewModelLuaTable.Type # "Table"
    THEN Outcome(ViewModelLuaTable, LuaHeap, TablesCreated, LuaCreateNil, NoCalls, <<>>,
                 LogIf(bLog, "Error: ViewModel Lua table is not initialized"))
    ELSE LET FunctionValue == LuaTableGetField(LuaHeap, ViewModelLuaTable, Name)
         IN IF LuaValueIsFunction(FunctionValue)
            THEN LET c == LuaValueCall(FunctionValue, <<ViewModelLuaTable>> \o Args, result)
                 IN Outcome(ViewModelLuaTable, LuaHeap, TablesCreated, c.result, <<c>>,
                            <<>>, NoLogs)
            ELSE Outcome(ViewModelLuaTable, LuaHeap, TablesCreated, LuaCreateNil, NoCalls,
                         <<>>, LogIf(bLog, "Warning: Function not found in ViewModel table"))

\* LuaGetField(Name)
ViewModelLuaGetFieldOut(Name, bLog) ==
    IF ViewModelLuaTable.Type # "Table"
    THEN Outcome(ViewModelLuaTable, LuaHeap, TablesCreated, LuaCreateNil, NoCalls, <<>>,
                 LogIf(bLog, "Error: ViewModel Lua table is not initialized"))
    ELSE Outcome(ViewModelLuaTable, LuaHeap, TablesCreated,
                 LuaTableGetField(LuaHeap, ViewModelLuaTable, Name), NoCalls, <<>>, NoLogs)

\* LuaSetField(Name, Value)
ViewModelLuaSetFieldOut(Name, Value, bLog) ==
    IF ViewModelLuaTable.Type # "Table"
    THEN Outcome(ViewModelLuaTable, LuaHeap, TablesCreated, Nil, NoCalls, <<>>,
                 LogIf(bLog, "Error: ViewModel Lua table is not initialized"))
    ELSE Outcome(ViewModelLuaTable,
                 LuaTableSetField(LuaHeap, ViewModelLuaTable, Name, Value),
                 TablesCreated, Nil, NoCalls, <<>>, NoLogs)

\* LuaBroadcastFieldValueChanged(FieldName): the broadcast, whatever the table.
LuaBroadcastFieldValueChangedOut(FieldName, bLog) ==
    Outcome(ViewModelLuaTable, LuaHeap, TablesCreated, Nil, NoCalls,
            <<FieldName>>, NoLogs)

\* LuaViewModelGetState(): the state instance, null when LuaState is unset.
LuaViewModelGetStateOut(bLog) ==
    Outcome(ViewModelLuaTable, LuaHeap, TablesCreated,
            StatePointer(IF LuaState = NoClass THEN NoState ELSE LuaGetState(LuaState)),
            NoCalls, <<>>, NoLogs)

\* GetViewModelLuaTable(): the member.
GetViewModelLuaTableOut(bLog) ==
    Outcome(ViewModelLuaTable, LuaHeap, TablesCreated, ViewModelLuaTable,
            NoCalls, <<>>, NoLogs)

----------------------------------------------------------------------------
\* The host edits a property of the instance (UPROPERTY EditAnywhere /
\* BlueprintReadWrite).  No handler of the bridge runs.
Edited ==
    /\ lastOp' = [op |-> "Edit"]
    /\ lastRet' = Nil
    /\ calls' = NoCalls
    /\ broadcasts' = <<>>
    /\ logs' = NoLogs
    /\ UNCHANGED <<cls, tables, constructed>>

SetLuaState ==
    /\ \E c \in StateClasses : LuaState' = c
    /\ Edited
    /\ UNCHANGED <<Table, bLogError, hooks>>

\* Table.Add(Key, Value)
TableAdd(map, Key, Value) ==
    [k \in (DOMAIN map) \cup {Key} |-> IF k = Key THEN Value ELSE map[k]]

\* Table.Remove(Key)
TableRemove(map, Key) == [k \in (DOMAIN map) \ {Key} |-> map[k]]

SetTable ==
    /\ \E k \in Keys :
          \/ \E v \in {p[2] : p \in {q \in TablePairs : q[1] = k}} :
                Table' = TableAdd(Table, k, v)
          \/ Table' = TableRemove(Table, k)
    /\ Edited
    /\ UNCHANGED <<LuaState, bLogError, hooks>>

SetLogError ==
    /\ bLogError' = ~bLogError
    /\ Edited
    /\ UNCHANGED <<LuaState, Table, hooks>>

\* Names the host gives a lifecycle hook: none, or a global that is a function
\* in a running state (and nil where the state cannot be obtained).
WidgetHookNames == {NAME_None, HookGlobal}
WidgetHooks == {"Constructed", "Destructed", "Activated", "Deactivated"}
ViewModelHookNames == {EmptyString, HookGlobal, DataGlobal}

SetWidgetHooks ==
    /\ cls = "Widget"
    /\ \E h \in WidgetHooks, n \in WidgetHookNames :
          /\ OnConstructedLuaFunction' =
                IF h = "Constructed" THEN n ELSE OnConstructedLuaFunction
          /\ OnDestructedLuaFunction' =
                IF h = "Destructed" THEN n ELSE OnDestructedLuaFunction
          /\ OnActivatedLuaFunction' =
                IF h = "Activated" THEN n ELSE OnActivatedLuaFunction
          /\ OnDeactivatedLuaFunction' =
                IF h = "Deactivated" THEN n ELSE OnDeactivatedLuaFunction
    /\ Edited
    /\ UNCHANGED <<LuaState, Table, bLogError,
                   OnGetPropertyLuaFunction, OnSetPropertyLuaFunction>>

SetViewModelHooks ==
    /\ cls = "ViewModel"
    /\ \E h \in {"Get", "Set"}, n \in ViewModelHookNames :
          /\ OnGetPropertyLuaFunction' =
                IF h = "Get" THEN n ELSE OnGetPropertyLuaFunction
          /\ OnSetPropertyLuaFunction' =
                IF h = "Set" THEN n ELSE OnSetPropertyLuaFunction
    /\ Edited
    /\ UNCHANGED <<LuaState, Table, bLogError,
                   OnConstructedLuaFunction, OnDestructedLuaFunction,
                   OnActivatedLuaFunction, OnDeactivatedLuaFunction>>

----------------------------------------------------------------------------
\* A handler ran: its outcome becomes the state.
Ran(op, o) ==
    /\ o.created <= MaxTables
    /\ lastOp' = op
    /\ lastRet' = o.ret
    /\ calls' = o.calls
    /\ broadcasts' = o.broadcasts
    /\ logs' = o.logs
    /\ LuaHeap' = o.heap
    /\ TablesCreated' = o.created
    /\ UNCHANGED config

WidgetRan(op, o) ==
    /\ cls = "Widget"
    /\ Ran(op, o)
    /\ WidgetLuaTable' = o.tbl
    /\ UNCHANGED ViewModelLuaTable

ViewModelRan(op, o) ==
    /\ cls = "ViewModel"
    /\ Ran(op, o)
    /\ ViewModelLuaTable' = o.tbl
    /\ UNCHANGED <<WidgetLuaTable, constructed>>

\* The engine's lifecycle events of the widget.
NativeConstruct ==
    /\ ~constructed
    /\ \E result \in LifecycleReturns :
          WidgetRan([op |-> "NativeConstruct"], NativeConstructOut(result, bLogError))
    /\ constructed' = TRUE

NativeDestruct ==
    /\ constructed
    /\ \E result \in LifecycleReturns :
          WidgetRan([op |-> "NativeDestruct"], NativeDestructOut(result, bLogError))
    /\ constructed' = FALSE

NativeOnActivated ==
    /\ constructed
    /\ \E result \in LifecycleReturns :
          WidgetRan([op |-> "NativeOnActivated"], NativeOnActivatedOut(result, bLogError))
    /\ UNCHANGED constructed

NativeOnDeactivated ==
    /\ constructed
    /\ \E result \in LifecycleReturns :
          WidgetRan([op |-> "NativeOnDeactivated"],
                    NativeOnDeactivatedOut(result, bLogError))
    /\ UNCHANGED constructed

\* The widget's Blueprint-callable operations.
WidgetLuaCallFunction ==
    /\ \E Name \in Keys, Args \in ArgLists, result \in FunctionReturns :
          WidgetRan([op |-> "LuaCallFunction", Name |-> Name, Args |-> Args],
                    WidgetLuaCallFunctionOut(Name, Args, result, bLogError))
    /\ UNCHANGED constructed

WidgetLuaGetField ==
    /\ \E Name \in Keys :
          WidgetRan([op |-> "LuaGetField", Name |-> Name],
                    WidgetLuaGetFieldOut(Name, bLogError))
    /\ UNCHANGED constructed

WidgetLuaSetField ==
    /\ \E Name \in Keys, Value \in SetValues :
          WidgetRan([op |-> "LuaSetField", Name |-> Name, Value |-> Value],
                    WidgetLuaSetFieldOut(Name, Value, bLogError))
    /\ UNCHANGED constructed

LuaWidgetGetState ==
    /\ WidgetRan([op |-> "LuaWidgetGetState"], LuaWidgetGetStateOut(bLogError))
    /\ UNCHANGED constructed

GetWidgetLuaTable ==
    /\ WidgetRan([op |-> "GetWidgetLuaTable"], GetWidgetLuaTableOut(bLogError))
    /\ UNCHANGED constructed

\* The view model's Blueprint-callable operations.
InitializeLuaViewModel ==
    ViewModelRan([op |-> "InitializeLuaViewModel"], InitializeLuaViewModelOut(bLogError))

LuaGetProperty ==
    \E PropertyName \in Keys, result \in HookReturns :
        ViewModelRan([op |-> "LuaGetProperty", Name |-> PropertyName],
                     LuaGetPropertyOut(PropertyName, result, bLogError))

LuaSetProperty ==
    \E PropertyName \in Keys, Value \in SetValues, result \in HookReturns :
        ViewModelRan([op |-> "LuaSetProperty", Name |-> PropertyName, Value |-> Value],
                     LuaSetPropertyOut(PropertyName, Value, result, bLogError))

ViewModelLuaCallFunction ==
    \E Name \in Keys, Args \in ArgLists, result \in FunctionReturns :
        ViewModelRan([op |-> "LuaCallFunction", Name |-> Name, Args |-> Args],
                     ViewModelLuaCallFunctionOut(Name, Args, result, bLogError))

ViewModelLuaGetField ==
    \E Name \in Keys :
        ViewModelRan([op |-> "LuaGetField", Name |-> Name],
                     ViewModelLuaGetFieldOut(Name, bLogError))

ViewModelLuaSetField ==
    \E Name \in Keys, Value \in SetValues :
        ViewModelRan([op |-> "LuaSetField", Name |-> Name, Value |-> Value],
                     ViewModelLuaSetFieldOut(Name, Value, bLogError))

LuaBroadcastFieldValueChanged ==
    \E FieldName \in Keys :
        ViewModelRan([op |-> "LuaBroadcastFieldValueChanged", Name |-> FieldName],
                     LuaBroadcastFieldValueChangedOut(FieldName, bLogError))

LuaViewModelGetState ==
    ViewModelRan([op |-> "LuaViewModelGetState"], LuaViewModelGetStateOut(bLogError))

GetViewModelLuaTable ==
    ViewModelRan([op |-> "GetViewModelLuaTable"], GetViewModelLuaTableOut(bLogError))

Next ==
    \/ SetLuaState
    \/ SetTable
    \/ SetLogError
    \/ SetWidgetHooks
    \/ SetViewModelHooks
    \/ NativeConstruct
    \/ NativeDestruct
    \/ NativeOnActivated
    \/ NativeOnDeactivated
    \/ WidgetLuaCallFunction
    \/ WidgetLuaGetField
    \/ WidgetLuaSetField
    \/ InitializeLuaViewModel
    \/ LuaGetProperty
    \/ LuaSetProperty
    \/ ViewModelLuaCallFunction
    \/ ViewModelLuaGetField
    \/ ViewModelLuaSetField
    \/ LuaWidgetGetState
    \/ GetWidgetLuaTable
    \/ LuaBroadcastFieldValueChanged
    \/ LuaViewModelGetState
    \/ GetViewModelLuaTable

Spec == Init /\ [][Next]_vars

----------------------------------------------------------------------------
\* What the claims speak of.

\* The instance's Lua table member and the name of its self-reference field.
InstanceTable == IF cls = "Widget" THEN WidgetLuaTable ELSE ViewModelLuaTable
Field(Name) == LuaTableGetField(LuaHeap, InstanceTable, Name)
Self == LuaCreateObject("this")

InitOps == {"NativeConstruct", "InitializeLuaViewModel"}
LifecycleOps == {"NativeConstruct", "NativeDestruct", "NativeOnActivated",
                 "NativeOnDeactivated"}
TableOps == {"LuaGetField", "LuaGetProperty", "LuaCallFunction", "LuaSetField",
             "LuaSetProperty"}

\* The last operation was an initialization, and it succeeded: handlers leave
\* LuaState alone, so it did iff the state instance can be obtained now.
InitJustSucceeded ==
    /\ lastOp.op \in InitOps
    /\ LuaGetState(LuaState) # NoState

\* What an operation shows of the instance: the value it returns, and what
\* LuaGetField returns for every key once it has run.
AfterOperation(o) ==
    [ret |-> o.ret,
     fields |-> [n \in Keys |-> LuaTableGetField(o.heap, o.tbl, n)]]

\* The results still to come in the current state: for every operation that
\* can run next, on every input and every result the script may give, what it
\* returns and what LuaGetField returns after it.
LaterResults ==
    IF cls = "Widget"
    THEN <<[r \in LifecycleReturns |->
              IF constructed
              THEN <<AfterOperation(NativeDestructOut(r, bLogError)),
                     AfterOperation(NativeOnActivatedOut(r, bLogError)),
                     AfterOperation(NativeOnDeactivatedOut(r, bLogError))>>
              ELSE <<AfterOperation(NativeConstructOut(r, bLogError))>>],
           [n \in Keys |->
              <<AfterOperation(WidgetLuaGetFieldOut(n, bLogError)),
                [v \in SetValues |->
                    AfterOperation(WidgetLuaSetFieldOut(n, v, bLogError))],
                [a \in ArgLists |-> [r \in FunctionReturns |->
                    AfterOperation(WidgetLuaCallFunctionOut(n, a, r, bLogError))]]>>]>>
    ELSE <<AfterOperation(InitializeLuaViewModelOut(bLogError)),
           [n \in Keys |->
              <<AfterOperation(ViewModelLuaGetFieldOut(n, bLogError)),
                [r \in HookReturns |->
                    AfterOperation(LuaGetPropertyOut(n, r, bLogError))],
                [v \in SetValues |->
                    <<AfterOperation(ViewModelLuaSetFieldOut(n, v, bLogError)),
                      [r \in HookReturns |->
                          AfterOperation(LuaSetPropertyOut(n, v, r, bLogError))]>>],
                [a \in ArgLists |-> [r \in FunctionReturns |->
                    AfterOperation(ViewModelLuaCallFunctionOut(n, a, r, bLogError))]]>>]>>

----------------------------------------------------------------------------
\* C1: once the instance holds a Lua table, no later operation replaces it
\* with a different table (the table is created at most once), so the fields
\* written to it stay readable.
C1_TableCreatedAtMostOnce ==
    [][InstanceTable.Type = "Table" => InstanceTable' = InstanceTable]_vars

\* The two halves of C2: the state right after an initialization, and a step
\* that edits Table on an instance whose table is initialized.
C2_AfterInit ==
    InitJustSucceeded => \A k \in DOMAIN Table : Field(k) = Table[k]
C2_TableEditChangesNoLaterResult ==
    Table' # Table /\ InstanceTable.Type = "Table" =>
        /\ tables' = tables
        /\ LaterResults' = LaterResults

\* C2: right after a successful initialization every key of Table holds
\* Table's value in the instance table; and a change to Table made after
\* initialization changes the result of no later LuaGetField, LuaGetProperty
\* or LuaCallFunction, be it the next operation or one that follows another
\* operation of the instance (only the initialization read Table).
C2_TableCopiedOnce ==
    [](C2_AfterInit) /\ [][C2_TableEditChangesNoLaterResult]_vars

\* C3 as stated: right after a successful initialization the self-reference
\* field holds the object reference to the instance, whatever Table holds.
C3_SelfReferenceAlways == InitJustSucceeded => Field(SelfKey) = Self

\* C3 as amended: right after a successful initialization the self-reference
\* field holds the object reference to the instance when Table has no entry
\* under that key, and Table's value for the key when it has one.
C3_SelfReferenceUnlessConfigured ==
    InitJustSucceeded =>
        Field(SelfKey) = IF SelfKey \in DOMAIN Table THEN Table[SelfKey] ELSE Self

C3_Witness ==
    /\ InitJustSucceeded
    /\ cls = "ViewModel"
    /\ DOMAIN Table = {"x"}
    /\ Field(SelfKey) = Self

\* A step of LuaCallFunction(Name, Args) from a state with an initialized table.
C4_CallStep ==
    lastOp'.op = "LuaCallFunction" /\ InstanceTable.Type = "Table" =>
        LET f == Field(lastOp'.Name)
        IN IF LuaValueIsFunction(f)
           THEN /\ Len(calls') = 1
                /\ calls'[1].fn = f
                /\ calls'[1].args = <<InstanceTable>> \o lastOp'.Args
                /\ lastRet' = calls'[1].result
           ELSE /\ calls' = NoCalls
                /\ lastRet' = Nil

\* C4: LuaCallFunction(Name, Args) on an initialized table: when the field
\* Name is a function it is invoked exactly once, with the instance table
\* followed by Args in their order, and its result is returned; otherwise no
\* Lua function is invoked and nil is returned.
C4_CallForwardsToField == [][C4_CallStep]_vars

\* C4's case: a function of the table was called with two arguments and its
\* result came back.
C4_Witness ==
    /\ lastOp.op = "LuaCallFunction"
    /\ cls = "Widget"
    /\ Len(lastOp.Args) = 2
    /\ Len(calls) = 1
    /\ lastRet = Int1

\* A step of one of the five table operations from a state without a table.
C5_UninitializedStep ==
    lastOp'.op \in TableOps /\ InstanceTable.Type # "Table" =>
        /\ lastRet' = Nil
        /\ tables' = tables
        /\ calls' = NoCalls
        /\ broadcasts' = <<>>

\* C5: while the instance table is not initialized, LuaGetField,
\* LuaGetProperty and LuaCallFunction return nil, LuaSetField and
\* LuaSetProperty change nothing, and none of the five invokes a Lua function
\* or emits a broadcast.
C5_UninitializedIsInert == [][C5_UninitializedStep]_vars

\* C5's case: LuaGetProperty ran on an uninitialized table although the get
\* hook is configured and callable.
C5_Witness ==
    /\ lastOp.op = "LuaGetProperty"
    /\ ViewModelLuaTable.Type # "Table"
    /\ OnGetPropertyLuaFunction = HookGlobal
    /\ LuaState = StateClass
    /\ calls = NoCalls

\* A step of an initialization that cannot obtain the state instance.
C6_FailedInitStep ==
    lastOp'.op \in InitOps /\ LuaGetState(LuaState) = NoState => tables' = tables

\* C6: an initialization that runs while LuaState is unset, or while the state
\* instance cannot be obtained, leaves the instance table as it was, be it
\* uninitialized or initialized by an earlier call.
C6_FailedInitKeepsTable == [][C6_FailedInitStep]_vars

\* C6's case: the initialization failed on a widget whose table an earlier
\* NativeConstruct had initialized.
C6_Witness ==
    /\ lastOp.op = "NativeConstruct"
    /\ LuaGetState(LuaState) = NoState
    /\ WidgetLuaTable.Type = "Table"
    /\ Field("x") = Int2

\* The set hook is configured and names a callable global of the state.
SetHookCallable ==
    /\ OnSetPropertyLuaFunction # EmptyString
    /\ LuaValueIsFunction(LuaGetGlobal(LuaState, OnSetPropertyLuaFunction))

\* A step of LuaSetProperty(PropertyName, Value) from a state with an
\* initialized table.
C7_SetPropertyStep ==
    lastOp'.op = "LuaSetProperty" /\ ViewModelLuaTable.Type = "Table" =>
        LET n == lastOp'.Name
            v == lastOp'.Value
            Writes == LuaHeap' = LuaTableSetField(LuaHeap, ViewModelLuaTable, n, v)
            NoWrite == LuaHeap' = LuaHeap
        IN /\ ViewModelLuaTable' = ViewModelLuaTable
           /\ IF SetHookCallable
              THEN /\ Len(calls') = 1
                   /\ calls'[1].args = <<ViewModelLuaTable, LuaCreateString(n), v>>
                   /\ CASE calls'[1].result = LuaTrue ->
                                NoWrite /\ broadcasts' = <<n>>
                        [] calls'[1].result = LuaFalse ->
                                NoWrite /\ broadcasts' = <<>>
                        [] OTHER -> Writes /\ broadcasts' = <<n>>
              ELSE /\ calls' = NoCalls
                   /\ Writes
                   /\ broadcasts' = <<n>>

\* C7: LuaSetProperty(PropertyName, Value) on an initialized table.  A set hook
\* that is configured and a callable global is invoked once with (table,
\* PropertyName, Value); on true the bridge does not write the field and
\* broadcasts, on false it neither writes nor broadcasts, on nil or another
\* value it writes the field and broadcasts.  Without a configured, callable
\* hook the bridge writes the field and broadcasts.
C7_SetPropertyDecisionTable == [][C7_SetPropertyStep]_vars

\* C7's case: the set hook rejected a change of "x", which stayed unwritten
\* and unannounced.
C7_Witness ==
    /\ lastOp.op = "LuaSetProperty"
    /\ lastOp.Name = "x"
    /\ lastOp.Value = Int2
    /\ Len(calls) = 1
    /\ calls[1].result = LuaFalse
    /\ Field("x") # Int2
    /\ broadcasts = <<>>

\* C8: whenever a lifecycle hook of the widget is invoked, its first argument
\* is the widget's Lua table, and that table is initialized.
C8_HookGetsInitializedTable ==
    lastOp.op \in LifecycleOps =>
        \A i \in 1..Len(calls) :
            /\ calls[i].args[1] = WidgetLuaTable
            /\ calls[i].args[1].Type = "Table"

\* Two outcomes of a handler, with the flag on and off, differ in the log
\* entries alone, and there are none with the flag off.
FlagOnlyLogs(on, off) ==
    /\ off.logs = NoLogs
    /\ [on EXCEPT !.logs = NoLogs] = off

\* Every handler of each class, on every input, in the current state.
C9_WidgetHandlers ==
    /\ FlagOnlyLogs(LuaWidgetGetStateOut(TRUE), LuaWidgetGetStateOut(FALSE))
    /\ FlagOnlyLogs(GetWidgetLuaTableOut(TRUE), GetWidgetLuaTableOut(FALSE))
    /\ \A r \in LifecycleReturns :
          /\ FlagOnlyLogs(NativeConstructOut(r, TRUE), NativeConstructOut(r, FALSE))
          /\ FlagOnlyLogs(NativeDestructOut(r, TRUE), NativeDestructOut(r, FALSE))
          /\ FlagOnlyLogs(NativeOnActivatedOut(r, TRUE), NativeOnActivatedOut(r, FALSE))
          /\ FlagOnlyLogs(NativeOnDeactivatedOut(r, TRUE),
                          NativeOnDeactivatedOut(r, FALSE))
    /\ \A n \in Keys :
          /\ FlagOnlyLogs(WidgetLuaGetFieldOut(n, TRUE), WidgetLuaGetFieldOut(n, FALSE))
          /\ \A v \in SetValues :
                FlagOnlyLogs(WidgetLuaSetFieldOut(n, v, TRUE),
                             WidgetLuaSetFieldOut(n, v, FALSE))
          /\ \A a \in ArgLists, r \in FunctionReturns :
                FlagOnlyLogs(WidgetLuaCallFunctionOut(n, a, r, TRUE),
                             WidgetLuaCallFunctionOut(n, a, r, FALSE))
C9_ViewModelHandlers ==
    /\ FlagOnlyLogs(LuaViewModelGetStateOut(TRUE), LuaViewModelGetStateOut(FALSE))
    /\ FlagOnlyLogs(GetViewModelLuaTableOut(TRUE), GetViewModelLuaTableOut(FALSE))
    /\ \A n \in Keys :
          FlagOnlyLogs(LuaBroadcastFieldValueChangedOut(n, TRUE),
                       LuaBroadcastFieldValueChangedOut(n, FALSE))
    /\ FlagOnlyLogs(InitializeLuaViewModelOut(TRUE), InitializeLuaViewModelOut(FALSE))
    /\ \A n \in Keys :
          /\ FlagOnlyLogs(ViewModelLuaGetFieldOut(n, TRUE),
                          ViewModelLuaGetFieldOut(n, FALSE))
          /\ \A r \in HookReturns :
                FlagOnlyLogs(LuaGetPropertyOut(n, r, TRUE), LuaGetPropertyOut(n, r, FALSE))
          /\ \A v \in SetValues :
                /\ FlagOnlyLogs(ViewModelLuaSetFieldOut(n, v, TRUE),
                                ViewModelLuaSetFieldOut(n, v, FALSE))
                /\ \A r \in HookReturns :
                      FlagOnlyLogs(LuaSetPropertyOut(n, v, r, TRUE),
                                   LuaSetPropertyOut(n, v, r, FALSE))
          /\ \A a \in ArgLists, r \in FunctionReturns :
                FlagOnlyLogs(ViewModelLuaCallFunctionOut(n, a, r, TRUE),
                             ViewModelLuaCallFunctionOut(n, a, r, FALSE))

\* C9: while bLogError is false no operation emits a log entry, and the flag
\* changes neither what an operation returns nor the state it leaves: for
\* every handler and every input, the outcome under the flag and the outcome
\* without it differ in the log entries alone.
C9_LoggingIsGated ==
    /\ bLogError = FALSE => logs = NoLogs
    /\ IF cls = "Widget" THEN C9_WidgetHandlers ELSE C9_ViewModelHandlers

\* C9's case: with the flag off, an activation found its hook not callable and
\* logged nothing.
C9_Witness ==
    /\ bLogError = FALSE
    /\ lastOp.op = "NativeOnActivated"
    /\ OnActivatedLuaFunction = HookGlobal
    /\ LuaState = DisabledStateClass
    /\ calls = NoCalls
    /\ logs = NoLogs

====
